---- MODULE Spec2Model ----
(***************************************************************************)
(* A model of src/app.py: the eight status extractors (get_status), the    *)
(* bounded latency history (Service.add_history), the foreground           *)
(* aggregation over the worker pool and the background sampler that fills  *)
(* DAILY_LOG.                                                              *)
(***************************************************************************)
EXTENDS Integers, Sequences, FiniteSets, TLC

VARIABLES
    service,      \* extractor under test: the provider whose get_status runs
    response,     \* extractor under test: what requests.get produced
    result,       \* extractor under test: what get_status returned
    history,      \* Service.history of every provider
    last_checked, \* Service.last_checked of every provider
    sampled,      \* every latency handed to add_history, per provider, in arrival order
    in_flight,    \* the add_history call of every foreground thread: None when the
                  \* thread runs none, else <<provider, the statement it is about to run>>
    clock,        \* the wall clock, in minutes since 00:00 of the day the process started
    world,        \* what each provider's status endpoint serves
    request,      \* the foreground aggregation: idle, collecting, returned or failed
    futures,      \* the aggregation's future of every provider
    finished,     \* the entries held by finished futures that were not yielded yet
    results,      \* the aggregation's results list
    rendered,     \* what the aggregation handed to its view: None or <<route, list>>
    DAILY_LOG,    \* the daily log of the background sampler
    pc,           \* where background_scheduler stands
    next_time,    \* background_scheduler's next_time
    due,          \* how many 15-minute boundaries have passed since
                  \* background_scheduler started
    appended,     \* how many snapshots background_scheduler has appended so far
    late          \* whether a sleep ended after the minute it was due, or a cycle
                  \* ran into the next 15-minute boundary

extractVars == <<service, response, result>>
serviceVars == <<history, last_checked, sampled, in_flight>>
poolVars == <<request, futures, finished, results, rendered>>
samplerVars == <<DAILY_LOG, pc, next_time, due, appended, late>>
vars == <<service, response, result, history, last_checked, sampled, in_flight, clock, world,
          request, futures, finished, results, rendered,
          DAILY_LOG, pc, next_time, due, appended, late>>

----------------------------------------------------------------------------
(* Bounds of the model.                                                    *)

\* longest class attribute of the status node
MaxClasses == 3
\* longest active_incidents list of a Slack response
MaxIncidents == 3
\* most checks of one provider in a run of the service detail page
MaxSamples == 32
\* most providers whose detail page is requested in one run
MaxDetailed == 1
\* most foreground aggregations in one run
MaxRequests == 1
\* days the background sampler is followed for when its cycles are short
MaxDays == 2
\* most minutes the eight checks of a short sampling cycle take
MaxCheckMinutes == 1
\* snapshots the background sampler is followed for when cycles may be slow
MaxSlowSamples == 4
\* most minutes a sleep of the background sampler ends late
MaxOversleep == 1
\* foreground threads that may run add_history at the same time
MaxCallers == 3
\* most add_history calls on one provider when they may interleave
MaxRaceSamples == 34
\* most detail-page checks of a provider while the background sampler runs
MaxFrameChecks == 2

----------------------------------------------------------------------------
(* Status and the configured providers.                                    *)

Status == {"ok", "maintenance", "minor", "major", "critical", "unavailable"}

SERVICES == << "Amazon Web Services", "Google Cloud", "GitHub", "Microsoft Azure",
               "Atlassian", "Cloudflare", "Slack", "Docker" >>

Providers == {SERVICES[i] : i \in 1..Len(SERVICES)}

\* Sequences over S of length at most n.
SeqUpTo(S, n) == UNION {[1..k -> S] : k \in 0..n}

----------------------------------------------------------------------------
(* The HTTP fetch.  requests.get either raises (fault) or returns a        *)
(* response; r.text is modelled by the set of the fragments the extractors *)
(* look for that occur in it, so that `x in r.text` is membership.         *)

Faults == {"ConnectionError", "Timeout"}

\* The outcome of a statement that raised inside the try block.
Raised == "raised"

\* A handler that lets the exception through.
TryExceptReraise(v) == v

\* `except: return Status.unavailable` around the whole body of get_status.

TryExcept(v) == IF v = Raised THEN "unavailable" ELSE v

\* str.lower() on the fragments the code lowers.
Lower(s) ==
    CASE s = "Good" -> "good"
      [] s = "Fewer than 3" -> "fewer than 3"
      [] s = "Incident" -> "incident"
      [] s = "Maintenance" -> "maintenance"
      [] OTHER -> s

LowerText(text) == {Lower(x) : x \in text}

\* Python's None, where a lookup finds nothing.
None == <<>>

\* The foreground threads (request handlers and their pool workers).
Callers == 1..MaxCallers

Min(S) == CHOOSE x \in S : \A y \in S : x <= y

----------------------------------------------------------------------------
(* StatusPagePlugin (Atlassian, Cloudflare).  A class token is the         *)
(* sequence of its hyphen-separated parts: "status-none" is                *)
(* <<"status", "none">>, "status" is <<"status">>, "status-" is            *)
(* <<"status", "">>.  The document holds at most one element that carries *)
(* a class attribute: element is None or <<its class list>>.               *)

ClassTokens ==
    { <<"status">>, <<"index">>, <<"page", "status">>,
      <<"status", "none">>, <<"status", "critical">>, <<"status", "major">>,
      <<"status", "minor">>, <<"status", "maintenance">>,
      <<"status", "degraded">>, <<"status", "">> }

StatusPageResponses ==
    {[fault |-> f, text |-> {}, element |-> None] : f \in Faults}
    \cup {[fault |-> "none", text |-> t, element |-> e] :
            t \in SUBSET {"All Systems Operational"},
            e \in {None} \cup {<<c>> : c \in SeqUpTo(ClassTokens, MaxClasses)}}

\* b.find(class_=['status', 'index']): the element, if one of its class
\* tokens is exactly status or index.
Find(element) ==
    IF element # None
       /\ \E i \in 1..Len(element[1]) : element[1][i] \in {<<"status">>, <<"index">>}
    THEN element
    ELSE None

\* x.startswith('status-')
StartsWithStatusDash(x) == Len(x) >= 2 /\ x[1] = "status"

\* The same search keeping the last hit instead of the first.
LastStatusClass(status_classes) ==
    LET hits == {i \in 1..Len(status_classes) : StartsWithStatusDash(status_classes[i])}
    IN  IF hits = {} THEN None ELSE status_classes[CHOOSE i \in hits : \A j \in hits : j <= i]

\* next((x for x in status_classes if x.startswith('status-')), None)
FirstStatusClass(status_classes) ==
    LET hits == {i \in 1..Len(status_classes) : StartsWithStatusDash(status_classes[i])}
    IN  IF hits = {} THEN None ELSE status_classes[Min(hits)]

StatusPagePlugin_classify(status) ==
    IF status = <<"status", "none">> THEN "ok"
    ELSE IF status = <<"status", "critical">> THEN "critical"
    ELSE IF status = <<"status", "major">> THEN "major"
    ELSE IF status = <<"status", "minor">> THEN "minor"
    ELSE IF status = <<"status", "maintenance">> THEN "maintenance"
    ELSE "unavailable"

StatusPagePlugin_body(r) ==
    IF r.fault # "none" THEN Raised
    ELSE LET page_status == Find(r.element)
         IN  IF page_status = None
             THEN IF "All Systems Operational" \in r.text THEN "ok" ELSE "unavailable"
             ELSE StatusPagePlugin_classify(FirstStatusClass(page_status[1]))

StatusPagePlugin_get_status(r) == TryExcept(StatusPagePlugin_body(r))

----------------------------------------------------------------------------
(* AWS.                                                                    *)

AWSFragments == {"Service is operating normally", "status0.gif", "status1.gif",
                 "status2.gif", "status3.gif"}

TextResponses(fragments) ==
    {[fault |-> f, text |-> {}] : f \in Faults}
    \cup {[fault |-> "none", text |-> t] : t \in SUBSET fragments}

\* The same rules with the status3 test ahead of the status2 test.
AWS_body_status3_first(r) ==
    IF r.fault # "none" THEN Raised
    ELSE IF "Service is operating normally" \in r.text \/ "status0.gif" \in r.text THEN "ok"
    ELSE IF "status1.gif" \in r.text THEN "ok"
    ELSE IF "status3.gif" \in r.text THEN "critical"
    ELSE IF "status2.gif" \in r.text THEN "minor"
    ELSE "ok"

AWS_body(r) ==
    IF r.fault # "none" THEN Raised
    ELSE IF "Service is operating normally" \in r.text \/ "status0.gif" \in r.text THEN "ok"
    ELSE IF "status1.gif" \in r.text THEN "ok"
    ELSE IF "status2.gif" \in r.text THEN "minor"
    ELSE IF "status3.gif" \in r.text THEN "critical"
    ELSE "ok"

AWS_get_status(r) == TryExcept(AWS_body(r))

----------------------------------------------------------------------------
(* Azure.  section is b.select_one('.section'): None or <<the fragments    *)
(* its markup holds>>; str(None) is "None", which holds no fragment.       *)

AzureFragments == {"Good", "good", "fewer than 3", "Fewer than 3"}

SectionFragments == {"health-warning", "health-error"}

AzureResponses ==
    {[fault |-> f, text |-> {}, section |-> None] : f \in Faults}
    \cup {[fault |-> "none", text |-> t, section |-> s] :
            t \in SUBSET AzureFragments,
            s \in {None} \cup {<<d>> : d \in SUBSET SectionFragments}}

Str(section) == IF section = None THEN {} ELSE section[1]

Azure_body(r) ==
    IF r.fault # "none" THEN Raised
    ELSE LET text == LowerText(r.text)
             div == Str(r.section)
         IN  IF "fewer than 3" \in text \/ "good" \in text THEN "ok"
             ELSE IF "health-warning" \in div THEN "minor"
             ELSE IF "health-error" \in div THEN "critical"
             ELSE "ok"

Azure_get_status(r) == TryExcept(Azure_body(r))

----------------------------------------------------------------------------
(* Google Cloud.                                                           *)

GCloudFragments == {"Available", "No incidents", "Service outage"}

GCloud_body(r) ==
    IF r.fault # "none" THEN Raised
    ELSE IF "Available" \in r.text \/ "No incidents" \in r.text THEN "ok"
    ELSE "ok"

GCloud_get_status(r) == TryExcept(GCloud_body(r))

----------------------------------------------------------------------------
(* Docker.                                                                 *)

DockerFragments == {"All Systems Operational", "Incident"}

Docker_body(r) ==
    IF r.fault # "none" THEN Raised
    ELSE IF "All Systems Operational" \in r.text THEN "ok"
    ELSE IF "Incident" \in r.text THEN "major"
    ELSE "unavailable"

Docker_get_status(r) == TryExcept(Docker_body(r))

----------------------------------------------------------------------------
(* GitHub.  The decoded body: json says whether r.json() fails ("invalid"),*)
(* yields a JSON array, or yields an object; status is the object's        *)
(* 'status' member (absent, a string, or an object) and indicator is None  *)
(* or <<value>> for that object's 'indicator' member.                      *)

Indicators == {"none", "minor", "major", "critical", "maintenance", "degraded"}

GitHubData ==
    {[json |-> j, status |-> "absent", indicator |-> None] : j \in {"invalid", "array", "object"}}
    \cup {[json |-> "object", status |-> "string", indicator |-> None]}
    \cup {[json |-> "object", status |-> "object", indicator |-> i] :
            i \in {None} \cup {<<v>> : v \in Indicators}}

GitHubResponses ==
    {[fault |-> f, data |-> [json |-> "invalid", status |-> "absent", indicator |-> None]] :
        f \in Faults}
    \cup {[fault |-> "none", data |-> d] : d \in GitHubData}

GitHub_body(r) ==
    IF r.fault # "none" THEN Raised
    ELSE IF r.data.json = "invalid" THEN Raised          \* r.json()
    ELSE IF r.data.json = "array" THEN Raised            \* list has no get
    ELSE IF r.data.status = "string" THEN Raised         \* str has no get
    ELSE LET indicator == r.data.indicator
         IN  IF indicator = <<"none">> THEN "ok"
             ELSE IF indicator = <<"minor">> THEN "minor"
             ELSE IF indicator = <<"major">> THEN "major"
             ELSE IF indicator = <<"critical">> THEN "critical"
             ELSE IF indicator = <<"maintenance">> THEN "maintenance"
             ELSE "ok"

GitHub_get_status(r) == TryExcept(GitHub_body(r))

----------------------------------------------------------------------------
(* Slack.  status is None or <<value>> for the object's 'status' member;   *)
(* active_incidents is None (member absent) or <<list>>; an incident is    *)
(* None (no 'type' member) or <<its type>>, the type JsonNull when the     *)
(* member is null.                                                         *)

JsonNull == "<null>"

IncidentTypes == {"incident", "Incident", "maintenance", "notice", JsonNull}

Incidents == {None} \cup {<<t>> : t \in IncidentTypes}

SlackData ==
    {[json |-> j, status |-> None, active_incidents |-> None] : j \in {"invalid", "array"}}
    \cup {[json |-> "object", status |-> s, active_incidents |-> a] :
            s \in {None, <<"ok">>, <<"active">>},
            a \in {None} \cup {<<l>> : l \in SeqUpTo(Incidents, MaxIncidents)}}

SlackResponses ==
    {[fault |-> f, data |-> [json |-> "invalid", status |-> None, active_incidents |-> None]] :
        f \in Faults}
    \cup {[fault |-> "none", data |-> d] : d \in SlackData}

\* incident.get('type', '').lower()
IncidentType(incident) ==
    IF incident = None THEN ""
    ELSE IF incident[1] = JsonNull THEN Raised           \* None has no lower
    ELSE Lower(incident[1])

\* for incident in active_incidents: ...; return Status.minor
RECURSIVE Slack_scan(_)
Slack_scan(active_incidents) ==
    IF active_incidents = <<>> THEN "minor"
    ELSE LET i_type == IncidentType(Head(active_incidents))
         IN  IF i_type = Raised THEN Raised
             ELSE IF i_type = "incident" THEN "major"
             ELSE IF i_type = "maintenance" THEN "maintenance"
             ELSE Slack_scan(Tail(active_incidents))

Slack_body(r) ==
    IF r.fault # "none" THEN Raised
    ELSE IF r.data.json = "invalid" THEN Raised          \* r.json()
    ELSE IF r.data.json = "array" THEN Raised            \* list has no get
    ELSE IF r.data.status = <<"ok">> THEN "ok"
    ELSE LET active_incidents ==
                 IF r.data.active_incidents = None THEN <<>> ELSE r.data.active_incidents[1]
         IN  IF active_incidents = <<>> THEN "ok"
             ELSE Slack_scan(active_incidents)

Slack_get_status(r) == TryExcept(Slack_body(r))

----------------------------------------------------------------------------
(* Dispatch over SERVICES and the responses each provider is tried on.     *)

Responses(s) ==
    CASE s = "Amazon Web Services" -> TextResponses(AWSFragments)
      [] s = "Google Cloud" -> TextResponses(GCloudFragments)
      [] s = "GitHub" -> GitHubResponses
      [] s = "Microsoft Azure" -> AzureResponses
      [] s \in {"Atlassian", "Cloudflare"} -> StatusPageResponses
      [] s = "Slack" -> SlackResponses
      [] s = "Docker" -> TextResponses(DockerFragments)

get_status(s, r) ==
    CASE s = "Amazon Web Services" -> AWS_get_status(r)
      [] s = "Google Cloud" -> GCloud_get_status(r)
      [] s = "GitHub" -> GitHub_get_status(r)
      [] s = "Microsoft Azure" -> Azure_get_status(r)
      [] s \in {"Atlassian", "Cloudflare"} -> StatusPagePlugin_get_status(r)
      [] s = "Slack" -> Slack_get_status(r)
      [] s = "Docker" -> Docker_get_status(r)

----------------------------------------------------------------------------
(* What a provider serves: the page of its decision-table row when all     *)
(* systems are operational, the page when it reports a critical incident,  *)
(* and an endpoint that does not answer.                                   *)

StatusPageBody(suffix) ==
    << << <<"status">>, <<"index">>, <<"status", suffix>> >> >>

OperationalPage(s) ==
    CASE s = "Amazon Web Services" ->
            [fault |-> "none", text |-> {"Service is operating normally"}]
      [] s = "Google Cloud" -> [fault |-> "none", text |-> {"Available", "No incidents"}]
      [] s = "Docker" -> [fault |-> "none", text |-> {"All Systems Operational"}]
      [] s = "Microsoft Azure" -> [fault |-> "none", text |-> {"Good"}, section |-> None]
      [] s = "GitHub" ->
            [fault |-> "none",
             data |-> [json |-> "object", status |-> "object", indicator |-> <<"none">>]]
      [] s = "Slack" ->
            [fault |-> "none",
             data |-> [json |-> "object", status |-> <<"ok">>, active_incidents |-> <<<<>>>>]]
      [] s \in {"Atlassian", "Cloudflare"} ->
            [fault |-> "none", text |-> {"All Systems Operational"},
             element |-> StatusPageBody("none")]

CriticalPage(s) ==
    CASE s = "Amazon Web Services" -> [fault |-> "none", text |-> {"status3.gif"}]
      [] s = "Google Cloud" -> [fault |-> "none", text |-> {"Service outage"}]
      [] s = "Docker" -> [fault |-> "none", text |-> {"Incident"}]
      [] s = "Microsoft Azure" ->
            [fault |-> "none", text |-> {}, section |-> <<{"health-error"}>>]
      [] s = "GitHub" ->
            [fault |-> "none",
             data |-> [json |-> "object", status |-> "object", indicator |-> <<"critical">>]]
      [] s = "Slack" ->
            [fault |-> "none",
             data |-> [json |-> "object", status |-> <<"active">>,
                       active_incidents |-> << << <<"incident">> >> >>]]
      [] s \in {"Atlassian", "Cloudflare"} ->
            [fault |-> "none", text |-> {}, element |-> StatusPageBody("critical")]

Unreachable(s) == CHOOSE r \in Responses(s) : r.fault = "Timeout"

\* The responses a provider is checked on by the routes.
CheckResponses(s) == {OperationalPage(s), CriticalPage(s), Unreachable(s)}

\* The states of the monitored providers a run is placed in: all
\* operational, all reporting a critical incident, none reachable, and a mix
\* of the three along SERVICES.
Index(s) == CHOOSE i \in 1..Len(SERVICES) : SERVICES[i] = s

AllOperational == [s \in Providers |-> OperationalPage(s)]

AllCritical == [s \in Providers |-> CriticalPage(s)]

NoneReachable == [s \in Providers |-> Unreachable(s)]

Mixed ==
    [s \in Providers |->
        CASE Index(s) % 3 = 0 -> OperationalPage(s)
          [] Index(s) % 3 = 1 -> CriticalPage(s)
          [] Index(s) % 3 = 2 -> Unreachable(s)]

Worlds == {AllOperational, AllCritical, NoneReachable, Mixed}

\* A state of the providers in which every severity occurs and two of them
\* occur twice: AWS and Azure critical, Cloudflare major, GitHub minor,
\* Docker unreachable, Atlassian and Slack under maintenance, Google Cloud
\* operational.
Graded ==
    [s \in Providers |->
        CASE s = "Amazon Web Services" -> CriticalPage(s)
          [] s = "Microsoft Azure" -> CriticalPage(s)
          [] s = "Cloudflare" ->
                [fault |-> "none", text |-> {}, element |-> StatusPageBody("major")]
          [] s = "GitHub" ->
                [fault |-> "none",
                 data |-> [json |-> "object", status |-> "object", indicator |-> <<"minor">>]]
          [] s = "Docker" -> Unreachable(s)
          [] s = "Atlassian" ->
                [fault |-> "none", text |-> {}, element |-> StatusPageBody("maintenance")]
          [] s = "Slack" ->
                [fault |-> "none",
                 data |-> [json |-> "object", status |-> <<"active">>,
                           active_incidents |-> << << <<"maintenance">> >> >>]]
          [] s = "Google Cloud" -> OperationalPage(s)]

----------------------------------------------------------------------------
(* The extractors on their own: one provider, one response, one call.      *)

NoResult == "pending"

\* Service.__init__ of every provider, at process start.
InitServices ==
    /\ history = [s \in Providers |-> <<>>]
    /\ last_checked = [s \in Providers |-> None]
    /\ sampled = [s \in Providers |-> <<>>]
    /\ in_flight = [c \in Callers |-> None]

\* No foreground aggregation is running.
InitPool ==
    /\ request = "idle"
    /\ futures = [s \in Providers |-> "none"]
    /\ finished = {}
    /\ results = <<>>
    /\ rendered = None

\* background_scheduler has not started: the module has just set DAILY_LOG.
InitNoSampler ==
    /\ DAILY_LOG = <<>>
    /\ pc = "top"
    /\ next_time = 0
    /\ due = 0
    /\ appended = 0
    /\ late = FALSE

\* The extractor under test is not used.
InitNoExtract ==
    /\ service = SERVICES[1]
    /\ response = Unreachable(SERVICES[1])
    /\ result = NoResult

InitExtract ==
    /\ service \in Providers
    /\ response \in Responses(service)
    /\ result = NoResult
    /\ InitServices
    /\ InitPool
    /\ InitNoSampler
    /\ clock = 0
    /\ world = AllOperational

GetStatus ==
    /\ result = NoResult
    /\ result' = get_status(service, response)
    /\ UNCHANGED <<service, response, serviceVars, clock, world, poolVars, samplerVars>>

NextExtract == GetStatus

SpecExtract == InitExtract /\ [][NextExtract]_vars

----------------------------------------------------------------------------
(* Claims about the extractors, checked under SpecExtract.                 *)

Returned == result # NoResult

Fetched == response.fault = "none"

\* r.json() succeeded and gave an object whose members have the types the
\* extractor reads them with.
Decoded ==
    /\ Fetched
    /\ response.data.json = "object"

\* `x in r.text`
HasFragment(x) == x \in response.text

\* C2 (as claimed): fail-closed.  get_status returns one of the six Status
\* values, and a response that matches none of the provider's positive
\* decision rules yields unavailable.
MatchesPositiveRule ==
    CASE service = "Amazon Web Services" -> response.text # {}
      [] service = "Google Cloud" -> HasFragment("Available") \/ HasFragment("No incidents")
      [] service = "Docker" -> response.text # {}
      [] service = "Microsoft Azure" ->
            \/ LowerText(response.text) # {}
            \/ response.section # None /\ response.section[1] # {}
      [] service = "GitHub" ->
            /\ response.data.json = "object"
            /\ response.data.indicator \in
                   {<<v>> : v \in {"none", "minor", "major", "critical", "maintenance"}}
      [] service = "Slack" ->
            /\ response.data.json = "object"
            /\ \/ response.data.status = <<"ok">>
               \/ /\ response.data.active_incidents # None
                  /\ response.data.active_incidents[1] # <<>>
      [] service \in {"Atlassian", "Cloudflare"} ->
            \/ HasFragment("All Systems Operational")
            \/ /\ response.element # None
               /\ \E i \in 1..Len(response.element[1]) :
                      response.element[1][i] \in
                          {<<"status", v>> : v \in {"none", "minor", "major", "critical", "maintenance"}}

C2_FailClosed ==
    Returned =>
        /\ result \in Status
        /\ (Fetched /\ ~MatchesPositiveRule) => result = "unavailable"

\* C3: when the fetch or the parsing of the response raises, get_status
\* returns unavailable, and what get_status hands back is always a Status:
\* no exception leaves it.
RaisesInFetch == response.fault \in Faults

RaisesInParse ==
    /\ Fetched
    /\ service \in {"GitHub", "Slack"}
    /\ \/ response.data.json \in {"invalid", "array"}
       \/ service = "GitHub" /\ response.data.status = "string"
       \/ /\ service = "Slack"
          /\ response.data.status # <<"ok">>
          /\ response.data.active_incidents # None
          /\ LET l == response.data.active_incidents[1]
             IN  \E i \in 1..Len(l) :
                    /\ l[i] = <<JsonNull>>
                    /\ \A j \in 1..(i - 1) :
                          l[j] = None \/ Lower(l[j][1]) \notin {"incident", "maintenance"}

C3_ExceptionGivesUnavailable ==
    Returned =>
        /\ result \in Status
        /\ (RaisesInFetch \/ RaisesInParse) => result = "unavailable"

C3_Witness ==
    /\ Returned
    /\ service = "Slack"
    /\ RaisesInParse
    /\ response.data.json = "object"
    /\ result = "unavailable"

\* C7 (as claimed): every provider's extractor returns ok on its "all
\* systems operational" fixture and critical on its "critical incident"
\* fixture.
OperationalFixture == response = OperationalPage(service)

CriticalFixture == response = CriticalPage(service)

C7_FixturePairs ==
    Returned =>
        /\ OperationalFixture => result = "ok"
        /\ CriticalFixture => result = "critical"

\* C8 (as claimed): Slack on a decoded response whose incidents all carry a
\* string type (or none): status "ok" gives ok; otherwise no incident gives
\* ok; otherwise major if any incident has type incident, else maintenance
\* if any has type maintenance, else minor, whatever the order of the list.
SlackIncidents ==
    IF response.data.active_incidents = None THEN <<>> ELSE response.data.active_incidents[1]

SlackHasType(t) ==
    \E i \in 1..Len(SlackIncidents) :
        SlackIncidents[i] # None /\ Lower(SlackIncidents[i][1]) = t

SlackTypesAreStrings ==
    \A i \in 1..Len(SlackIncidents) : SlackIncidents[i] # <<JsonNull>>

C8_SlackAnyOrder ==
    (Returned /\ service = "Slack" /\ Decoded /\ SlackTypesAreStrings) =>
        result = IF response.data.status = <<"ok">> THEN "ok"
                 ELSE IF SlackIncidents = <<>> THEN "ok"
                 ELSE IF SlackHasType("incident") THEN "major"
                 ELSE IF SlackHasType("maintenance") THEN "maintenance"
                 ELSE "minor"

\* C9: StatusPagePlugin.  With the status node present the first class
\* token that starts with "status-" decides: none, critical, major, minor
\* and maintenance map to the Status of that name (none to ok), any other
\* suffix or no such token gives unavailable.  With the node absent the
\* result is ok when the text holds "All Systems Operational", unavailable
\* otherwise.
NodeClasses == response.element[1]

NodePresent ==
    /\ response.element # None
    /\ \E i \in 1..Len(NodeClasses) : NodeClasses[i] \in {<<"status">>, <<"index">>}

IsFirstStatusToken(i) ==
    /\ i \in 1..Len(NodeClasses)
    /\ Len(NodeClasses[i]) >= 2 /\ NodeClasses[i][1] = "status"
    /\ \A j \in 1..(i - 1) : ~(Len(NodeClasses[j]) >= 2 /\ NodeClasses[j][1] = "status")

SuffixStatus(suffix) ==
    CASE suffix = "none" -> "ok"
      [] suffix \in {"critical", "major", "minor", "maintenance"} -> suffix
      [] OTHER -> "unavailable"

C9_StatusPage ==
    (Returned /\ service \in {"Atlassian", "Cloudflare"} /\ Fetched) =>
        /\ NodePresent =>
              /\ \A i \in 1..Len(NodeClasses) :
                    IsFirstStatusToken(i) => result = SuffixStatus(NodeClasses[i][2])
              /\ (\A i \in 1..Len(NodeClasses) : ~IsFirstStatusToken(i)) => result = "unavailable"
        /\ ~NodePresent =>
              result = IF HasFragment("All Systems Operational") THEN "ok" ELSE "unavailable"

C9_Witness ==
    /\ Returned /\ service = "Cloudflare" /\ Fetched /\ NodePresent
    /\ NodeClasses = << <<"status">>, <<"status", "major">>, <<"status", "none">> >>
    /\ result = "major"

\* C10: AWS applies its substring rules in order, first match wins:
\* "Service is operating normally" or status0 gives ok, else status1 gives
\* ok, else status2 gives minor, else status3 gives critical, else ok; so an
\* ok marker beats status3 and status2 beats status3.
AWSOkMarker == HasFragment("Service is operating normally") \/ HasFragment("status0.gif")

C10_AWSFirstMatch ==
    (Returned /\ service = "Amazon Web Services" /\ Fetched) =>
        /\ AWSOkMarker => result = "ok"
        /\ (~AWSOkMarker /\ HasFragment("status1.gif")) => result = "ok"
        /\ (~AWSOkMarker /\ ~HasFragment("status1.gif") /\ HasFragment("status2.gif"))
              => result = "minor"
        /\ (~AWSOkMarker /\ ~HasFragment("status1.gif") /\ ~HasFragment("status2.gif")
               /\ HasFragment("status3.gif")) => result = "critical"
        /\ response.text = {} => result = "ok"

C10_Witness ==
    /\ Returned /\ service = "Amazon Web Services" /\ Fetched
    /\ response.text = {"status2.gif", "status3.gif"}
    /\ result = "minor"

----------------------------------------------------------------------------
(* Service.add_history and check_single_service.                           *)

HistoryLimit == 30

\* self.history.pop(-1): the newest sample leaves instead of the oldest.
pop_last(h) == SubSeq(h, 1, Len(h) - 1)

\* self.history.pop(0)
pop_first(h) == Tail(h)

\* The list after add_history(latency_ms).
add_history(h, latency_ms) ==
    LET grown == Append(h, latency_ms)
    IN  IF Len(grown) > HistoryLimit THEN pop_first(grown) ELSE grown

\* add_history never reads the samples it stores, so the latency of a check
\* is modelled by the number of the check: every sample of a provider is
\* distinct and the order of the list can be observed.
Latency(s) == Len(sampled[s]) + 1

\* check_single_service(service) on response r raises when get_status does:
\* nothing else in it can.
CheckRaises(s, r) == get_status(s, r) = Raised

\* The entry check_single_service(service) returns on response r; incident
\* says whether a mock incident is attached.
Entry(s, r) ==
    LET status == get_status(s, r)
    IN  [name |-> s, status |-> status, incident |-> status # "ok",
         history |-> add_history(history[s], Latency(s))]

\* What check_single_service(service) leaves in the service.
RecordCheck(s) ==
    /\ history' = [history EXCEPT ![s] = add_history(@, Latency(s))]
    /\ last_checked' = [last_checked EXCEPT ![s] = <<clock>>]
    /\ sampled' = [sampled EXCEPT ![s] = Append(@, Latency(s))]
    /\ UNCHANGED in_flight

----------------------------------------------------------------------------
(* add_history run by several foreground threads at once.  Nothing locks   *)
(* the list: a thread may be preempted between the statements of           *)
(* add_history, each of which (list.append, the assignment, len and the    *)
(* comparison, list.pop) is one atomic step.                               *)

\* The test with the limit one higher.
over_limit_31(h) == Len(h) > HistoryLimit + 1

\* len(self.history) > 30
over_limit(h) == Len(h) > HistoryLimit

\* The add_history calls in flight on provider s.
InFlight(s) == {c \in Callers : in_flight[c] # None /\ in_flight[c][1] = s}

At(c, statement) == in_flight[c] # None /\ in_flight[c][2] = statement

\* self.history.append(latency_ms), at the end of check_single_service(s)
\* in thread c.  add_history touches no other Service object, so the
\* threads of a run all check the same provider.
add_history_append(c, s) ==
    /\ in_flight[c] = None
    /\ Len(sampled[s]) < MaxRaceSamples
    /\ \A t \in Providers \ {s} : sampled[t] = <<>>
    /\ history' = [history EXCEPT ![s] = Append(@, Latency(s))]
    /\ sampled' = [sampled EXCEPT ![s] = Append(@, Latency(s))]
    /\ in_flight' = [in_flight EXCEPT ![c] = <<s, "stamp">>]
    /\ UNCHANGED <<extractVars, last_checked, clock, world, poolVars, samplerVars>>

\* self.last_checked = datetime.now()
add_history_stamp(c) ==
    /\ At(c, "stamp")
    /\ last_checked' = [last_checked EXCEPT ![in_flight[c][1]] = <<clock>>]
    /\ in_flight' = [in_flight EXCEPT ![c] = <<@[1], "test">>]
    /\ UNCHANGED <<extractVars, history, sampled, clock, world, poolVars, samplerVars>>

\* if len(self.history) > 30: the call ends when the test fails.
add_history_test(c) ==
    /\ At(c, "test")
    /\ in_flight' = [in_flight EXCEPT ![c] =
                        IF over_limit(history[@[1]]) THEN <<@[1], "pop">> ELSE None]
    /\ UNCHANGED <<extractVars, history, last_checked, sampled, clock, world,
                   poolVars, samplerVars>>

\* self.history.pop(0)
add_history_pop(c) ==
    /\ At(c, "pop")
    /\ history' = [history EXCEPT ![in_flight[c][1]] = pop_first(@)]
    /\ in_flight' = [in_flight EXCEPT ![c] = None]
    /\ UNCHANGED <<extractVars, last_checked, sampled, clock, world, poolVars, samplerVars>>

InitRace ==
    /\ InitNoExtract
    /\ InitServices
    /\ InitPool
    /\ InitNoSampler
    /\ clock = 0
    /\ world = AllOperational

NextRace ==
    \/ \E c \in Callers, s \in Providers : add_history_append(c, s)
    \/ \E c \in Callers : add_history_stamp(c)
    \/ \E c \in Callers : add_history_test(c)
    \/ \E c \in Callers : add_history_pop(c)

SpecRace == InitRace /\ [][NextRace]_vars

----------------------------------------------------------------------------
(* The service detail page: one provider checked per request.              *)

\* service_detail(name): check_single_service on the named provider; the
\* page shows the status and get_detailed_stats, and changes nothing else.
service_detail(name) ==
    /\ Len(sampled[name]) < MaxSamples
    /\ Cardinality({s \in Providers : sampled[s] # <<>>} \cup {name}) <= MaxDetailed
    /\ \E r \in CheckResponses(name) :
          IF CheckRaises(name, r)
          THEN UNCHANGED serviceVars
          ELSE RecordCheck(name)
    /\ UNCHANGED <<extractVars, clock, world, poolVars, samplerVars>>

InitDetail ==
    /\ InitNoExtract
    /\ InitServices
    /\ InitPool
    /\ InitNoSampler
    /\ clock = 0
    /\ world = AllOperational

NextDetail == \E name \in Providers : service_detail(name)

SpecDetail == InitDetail /\ [][NextDetail]_vars

----------------------------------------------------------------------------
(* list.sort(key=...) as the routes use it.  Python compares the names as  *)
(* strings; NameOrder is that order on the eight names of SERVICES. A key  *)
(* is a tuple of integers, compared as Python compares tuples.             *)

NameOrder == << "Amazon Web Services", "Atlassian", "Cloudflare", "Docker", "GitHub",
                "Google Cloud", "Microsoft Azure", "Slack" >>

NameRank(name) == CHOOSE i \in 1..Len(NameOrder) : NameOrder[i] = name

\* key=lambda x: x['name']
name_key(x) == <<NameRank(x.name)>>

\* sort_map with unavailable and maintenance the other way round.
sort_map_maintenance_first(status) ==
    CASE status = "critical" -> 0
      [] status = "major" -> 1
      [] status = "minor" -> 2
      [] status = "maintenance" -> 3
      [] status = "unavailable" -> 4
      [] status = "ok" -> 5
      [] OTHER -> 6

\* sort_map of the monitoring view
sort_map(status) ==
    CASE status = "critical" -> 0
      [] status = "major" -> 1
      [] status = "minor" -> 2
      [] status = "unavailable" -> 3
      [] status = "maintenance" -> 4
      [] status = "ok" -> 5
      [] OTHER -> 6

\* key=lambda x: (sort_map.get(x['status'], 6), x['name'])
monitoring_key(x) == <<sort_map(x.status), NameRank(x.name)>>

RECURSIVE KeyLess(_, _)
KeyLess(a, b) ==
    IF a = <<>> \/ b = <<>> THEN a = <<>> /\ b # <<>>
    ELSE IF Head(a) # Head(b) THEN Head(a) < Head(b)
    ELSE KeyLess(Tail(a), Tail(b))

\* Insert the pair <<key, x>> into a sorted list of pairs, after the pairs
\* whose key is not greater (the sort is stable).
RECURSIVE InsertSorted(_, _)
InsertSorted(pair, sorted) ==
    IF sorted = <<>> THEN <<pair>>
    ELSE IF KeyLess(pair[1], Head(sorted)[1]) THEN <<pair>> \o sorted
    ELSE <<Head(sorted)>> \o InsertSorted(pair, Tail(sorted))

RECURSIVE SortPairs(_)
SortPairs(pairs) ==
    IF pairs = <<>> THEN <<>>
    ELSE InsertSorted(pairs[Len(pairs)], SortPairs(SubSeq(pairs, 1, Len(pairs) - 1)))

Undecorate(pairs) == [i \in 1..Len(pairs) |-> pairs[i][2]]

sort_by_name(list) ==
    Undecorate(SortPairs([i \in 1..Len(list) |-> <<name_key(list[i]), list[i]>>]))

sort_for_monitoring(list) ==
    Undecorate(SortPairs([i \in 1..Len(list) |-> <<monitoring_key(list[i]), list[i]>>]))

----------------------------------------------------------------------------
(* The foreground aggregation.  index, monitoring, get_report_text and     *)
(* generate_excel_file run the same block (submit every provider's check   *)
(* to a pool of ten workers, append each future's result as it completes)  *)
(* and differ in what follows it, so the model branches where they differ. *)

Routes == {"index", "monitoring", "get_report_text", "generate_excel_file"}

\* {executor.submit(check_single_service, s): s for s in SERVICES}
submit ==
    /\ request = "idle"
    /\ \A s \in Providers : Len(sampled[s]) < MaxRequests
    /\ request' = "collecting"
    /\ futures' = [s \in Providers |-> "running"]
    /\ finished' = {}
    /\ results' = <<>>
    /\ rendered' = None
    /\ UNCHANGED <<extractVars, serviceVars, clock, world, samplerVars>>

\* A pool worker runs check_single_service(s) to its end.
worker(s) ==
    /\ futures[s] = "running"
    /\ IF CheckRaises(s, world[s])
       THEN /\ futures' = [futures EXCEPT ![s] = "raised"]
            /\ UNCHANGED <<serviceVars, finished>>
       ELSE /\ futures' = [futures EXCEPT ![s] = "finished"]
            /\ finished' = finished \cup {Entry(s, world[s])}
            /\ RecordCheck(s)
    /\ UNCHANGED <<extractVars, clock, world, request, results, rendered, samplerVars>>

\* as_completed yields the future of s; results.append(future.result()).
\* A future that holds an exception raises it here: the route fails (the
\* with block still joins the workers on the way out).
as_completed(s) ==
    /\ request = "collecting"
    /\ futures[s] \in {"finished", "raised"}
    /\ IF futures[s] = "raised"
       THEN /\ request' = "failed"
            /\ UNCHANGED <<futures, finished, results>>
       ELSE LET entry == CHOOSE e \in finished : e.name = s
            IN  /\ results' = Append(results, entry)
                /\ finished' = finished \ {entry}
                /\ futures' = [futures EXCEPT ![s] = "yielded"]
                /\ UNCHANGED request
    /\ UNCHANGED <<extractVars, serviceVars, clock, world, rendered, samplerVars>>

\* Leaving the with block joins the workers: no future is still running.
Joined == \A s \in Providers : futures[s] # "running"

\* The loop over as_completed ended at the first future it yielded.
FirstCompleted == \E s \in Providers : futures[s] = "yielded"

\* as_completed has yielded every future.
Exhausted == \A s \in Providers : futures[s] = "yielded"

\* results.sort(...) and the hand-over to the view.
return(route, sorted) ==
    /\ request = "collecting"
    /\ Exhausted
    /\ Joined
    /\ results' = sorted
    /\ rendered' = <<route, sorted>>
    /\ request' = "returned"
    /\ UNCHANGED <<extractVars, serviceVars, clock, world, futures, finished, samplerVars>>

index == return("index", sort_by_name(results))

monitoring == return("monitoring", sort_for_monitoring(results))

get_report_text == return("get_report_text", sort_by_name(results))

generate_excel_file == return("generate_excel_file", sort_by_name(results))

\* The next request finds the route idle again.
finish ==
    /\ request \in {"returned", "failed"}
    /\ request' = "idle"
    /\ futures' = [s \in Providers |-> "none"]
    /\ finished' = {}
    /\ results' = <<>>
    /\ rendered' = None
    /\ UNCHANGED <<extractVars, serviceVars, clock, world, samplerVars>>

InitAggregate ==
    /\ InitNoExtract
    /\ InitServices
    /\ InitPool
    /\ InitNoSampler
    /\ clock = 0
    /\ world \in Worlds

NextAggregate ==
    \/ submit
    \/ \E s \in Providers : worker(s)
    \/ \E s \in Providers : as_completed(s)
    \/ index
    \/ monitoring
    \/ get_report_text
    \/ generate_excel_file
    \/ finish

SpecAggregate == InitAggregate /\ [][NextAggregate]_vars

\* The same routes while the providers report every severity.
InitOrder ==
    /\ InitNoExtract
    /\ InitServices
    /\ InitPool
    /\ InitNoSampler
    /\ clock = 0
    /\ world = Graded

SpecOrder == InitOrder /\ [][NextAggregate]_vars

----------------------------------------------------------------------------
(* background_scheduler.  A datetime is the number of minutes since 00:00  *)
(* of the day the process started; seconds are not modelled, so a step     *)
(* that takes less than a minute may or may not move the clock.            *)

MinutesPerDay == 24 * 60

hour(t) == (t \div 60) % 24

minute(t) == t % 60

\* t.strftime("%H:%M")
strftime(t) == <<hour(t), minute(t)>>

\* t.replace(minute=m, second=0, microsecond=0)
replace_minute(t, m) == (t \div 60) * 60 + m

\* status.name.upper()
Upper(status) ==
    CASE status = "ok" -> "OK"
      [] status = "maintenance" -> "MAINTENANCE"
      [] status = "minor" -> "MINOR"
      [] status = "major" -> "MAJOR"
      [] status = "critical" -> "CRITICAL"
      [] status = "unavailable" -> "UNAVAILABLE"

\* The reset test without its length condition.
should_reset_any_size(now, log) == hour(now) = 0 /\ minute(now) < 15

\* The reset test with the length of a full day of snapshots.
should_reset_over_96(now, log) == hour(now) = 0 /\ minute(now) < 15 /\ Len(log) > 96

\* now.hour == 0 and now.minute < 15 and len(DAILY_LOG) > 90
should_reset(now, log) == hour(now) = 0 /\ minute(now) < 15 /\ Len(log) > 90

\* A quarter of an hour from now, wherever in the quarter now lies.
next_boundary_drifting(now) == now + 15

\* next_time as the loop computes it from now.
next_boundary(now) ==
    LET next_minute == (minute(now) \div 15 + 1) * 15
    IN  IF next_minute = 60 THEN replace_minute(now + 60, 0)
        ELSE replace_minute(now, next_minute)

\* The head of the loop: read the clock, reset the log inside the midnight
\* window, compute next_time.
top ==
    /\ pc = "top"
    /\ LET now == clock
       IN  /\ DAILY_LOG' = IF should_reset(now, DAILY_LOG) THEN <<>> ELSE DAILY_LOG
           /\ next_time' = next_boundary(now)
    /\ pc' = "sleep"
    /\ UNCHANGED <<extractVars, serviceVars, clock, world, poolVars, due, appended, late>>

\* The 15-minute boundaries in (t, u].
Boundaries(t, u) == u \div 15 - t \div 15

\* time.sleep(delay) returns at next_time, or over minutes after it.
sleep(over) ==
    /\ pc = "sleep"
    /\ clock' = next_time + over
    /\ due' = due + Boundaries(clock, clock')
    /\ late' = (late \/ clock' > next_time)
    /\ pc' = "check"
    /\ UNCHANGED <<extractVars, serviceVars, world, poolVars, DAILY_LOG, next_time, appended>>

\* One severity string per provider, UNKNOWN where get_status raised.
snapshot_services ==
    [s \in Providers |->
        IF CheckRaises(s, world[s]) THEN "UNKNOWN" ELSE Upper(get_status(s, world[s]))]

\* The loop calling check_single_service(service) where it calls
\* service.get_status(): every provider gets a sample.
scheduled_check_single_service ==
    /\ history' = [s \in Providers |-> add_history(history[s], Latency(s))]
    /\ last_checked' = [s \in Providers |-> <<clock>>]
    /\ sampled' = [s \in Providers |-> Append(sampled[s], Latency(s))]
    /\ UNCHANGED in_flight

\* What the loop over SERVICES does to the services: it calls
\* service.get_status() on each, which writes no attribute of the service.
scheduled_get_status == UNCHANGED serviceVars

\* The snapshot is stamped, the eight extractors run one after the other
\* (taking took minutes together) and the snapshot is appended.
check(took) ==
    /\ pc = "check"
    /\ DAILY_LOG' = Append(DAILY_LOG, [timestamp |-> strftime(clock),
                                       services |-> snapshot_services])
    /\ clock' = clock + took
    /\ appended' = appended + 1
    /\ due' = due + Boundaries(clock, clock')
    /\ late' = (late \/ Boundaries(clock, clock') > 0)
    /\ pc' = "pause"
    /\ scheduled_get_status
    /\ UNCHANGED <<extractVars, world, poolVars, next_time>>

\* time.sleep(2)
pause(took) ==
    /\ pc = "pause"
    /\ clock' = clock + took
    /\ due' = due + Boundaries(clock, clock')
    /\ late' = (late \/ Boundaries(clock, clock') > 0)
    /\ pc' = "top"
    /\ UNCHANGED <<extractVars, serviceVars, world, poolVars, DAILY_LOG, next_time, appended>>

\* The thread is started when the module is loaded.
InitThread ==
    /\ InitNoExtract
    /\ InitServices
    /\ InitPool
    /\ InitNoSampler
    /\ world \in {AllOperational, Mixed}

\* The process starts at any minute of a day.
InitSampler ==
    /\ InitThread
    /\ clock \in 0..(MinutesPerDay - 1)

\* Cycles that end well inside their quarter of an hour.
Followed == clock <= MaxDays * MinutesPerDay

NextSampler ==
    \/ Followed /\ top
    \/ Followed /\ sleep(0)
    \/ Followed /\ \E took \in 0..MaxCheckMinutes : check(took)
    \/ Followed /\ \E took \in 0..1 : pause(took)

SpecSampler == InitSampler /\ [][NextSampler]_vars

\* Cycles that may be slow: a sleep may end late, the checks may run into
\* the next quarter of an hour.
SlowCheckMinutes == {0, 14, 15, 16}

FollowedSlow == appended < MaxSlowSamples

NextSamplerSlow ==
    \/ FollowedSlow /\ top
    \/ FollowedSlow /\ \E over \in 0..MaxOversleep : sleep(over)
    \/ FollowedSlow /\ \E took \in SlowCheckMinutes : check(took)
    \/ FollowedSlow /\ \E took \in 0..1 : pause(took)

\* The process starts in the last hour of a day.
InitSamplerSlow ==
    /\ InitThread
    /\ clock \in (MinutesPerDay - 60)..(MinutesPerDay - 1)

SpecSamplerSlow == InitSamplerSlow /\ [][NextSamplerSlow]_vars

\* Cycles of any length that end inside their quarter of an hour: the checks
\* take no time, a minute, or thirteen minutes, the pause up to one more,
\* and the sampler is followed until the first snapshot after the last
\* midnight.
TimelyCheckMinutes == {0, 1, 13}

FollowedTimely == clock <= MaxDays * MinutesPerDay + 15

NextSamplerTimely ==
    \/ FollowedTimely /\ top
    \/ FollowedTimely /\ sleep(0)
    \/ FollowedTimely /\ \E took \in TimelyCheckMinutes : check(took)
    \/ FollowedTimely /\ \E took \in 0..1 : pause(took)

InitSamplerTimely ==
    /\ InitThread
    /\ world = AllOperational
    /\ clock \in 0..(MinutesPerDay - 1)

SpecSamplerTimely == InitSamplerTimely /\ [][NextSamplerTimely]_vars

\* The background sampler next to foreground requests for the detail page
\* of a provider, the same provider throughout a run.
FollowedFrame ==
    /\ appended < MaxSlowSamples
    /\ \A s \in Providers : Len(sampled[s]) <= MaxFrameChecks

NextFrame ==
    \/ FollowedFrame /\ top
    \/ FollowedFrame /\ sleep(0)
    \/ FollowedFrame /\ \E took \in 0..MaxCheckMinutes : check(took)
    \/ FollowedFrame /\ \E took \in 0..1 : pause(took)
    \/ FollowedFrame /\ \E name \in Providers :
          /\ Len(sampled[name]) < MaxFrameChecks
          /\ \A t \in Providers \ {name} : sampled[t] = <<>>
          /\ service_detail(name)

\* The process starts in the last quarter of an hour of a day.
InitFrame ==
    /\ InitThread
    /\ world = AllOperational
    /\ clock \in (MinutesPerDay - 15)..(MinutesPerDay - 1)

SpecFrame == InitFrame /\ [][NextFrame]_vars

\* C1: a provider's history holds at most 30 samples, and they are exactly
\* the most recent min(n, 30) of the n samples handed to add_history, in
\* arrival order.
LastSamples(all) ==
    LET n == Len(all)
        k == IF n < 30 THEN n ELSE 30
    IN  [i \in 1..k |-> all[n - k + i]]

C1_HistoryBound ==
    \A s \in Providers :
        /\ Len(history[s]) <= 30
        /\ history[s] = LastSamples(sampled[s])

C1_Witness ==
    \E s \in Providers :
        /\ Len(sampled[s]) = 32
        /\ Len(history[s]) = 30
        /\ history[s][1] = sampled[s][3]

\* C4: a foreground aggregation never fails, returns only after every
\* submitted check has completed, and hands its view exactly one entry per
\* configured provider, the entry of a provider whose fetch failed having
\* status unavailable.
EntriesOf(list, s) == {i \in 1..Len(list) : list[i].name = s}

C4_OneEntryPerProvider ==
    /\ request # "failed"
    /\ request = "returned" =>
          /\ \A s \in Providers : futures[s] = "yielded" /\ sampled[s] # <<>>
          /\ rendered # None
          /\ rendered[1] \in Routes
          /\ Len(rendered[2]) = 8
          /\ \A s \in Providers :
                /\ Cardinality(EntriesOf(rendered[2], s)) = 1
                /\ \A i \in EntriesOf(rendered[2], s) :
                      /\ rendered[2][i].status \in Status
                      /\ world[s].fault \in Faults => rendered[2][i].status = "unavailable"

C4_Witness ==
    /\ request = "returned"
    /\ rendered[1] = "generate_excel_file"
    /\ \E s, t \in Providers : world[s].fault \in Faults /\ world[t].fault = "none"
    /\ \E i \in 1..Len(rendered[2]) : rendered[2][i].status = "unavailable"

\* C5: DAILY_LOG is cleared only while the wall clock is inside the midnight
\* window (hour 0, minute below 15) and the log holds more than 90
\* snapshots; every other step that changes the log appends one snapshot
\* and leaves the entries it held as they were.
C5_ClearOnlyInWindow ==
    [][ DAILY_LOG' # DAILY_LOG =>
          \/ /\ DAILY_LOG' = <<>>
             /\ hour(clock) = 0
             /\ minute(clock) < 15
             /\ Len(DAILY_LOG) > 90
          \/ /\ Len(DAILY_LOG') = Len(DAILY_LOG) + 1
             /\ SubSeq(DAILY_LOG', 1, Len(DAILY_LOG)) = DAILY_LOG ]_vars

C5_Witness ==
    /\ pc = "sleep"
    /\ DAILY_LOG = <<>>
    /\ appended > 90
    /\ hour(clock) = 0 /\ minute(clock) < 15

\* C6: the sampler appends exactly one snapshot per 15-minute boundary that
\* passes while it runs (none skipped, none sampled twice), stamped on the
\* 15-minute grid and holding one severity string for every provider.
SeverityStrings == {Upper(x) : x \in Status}

SnapshotsComplete ==
    \A i \in 1..Len(DAILY_LOG) :
        /\ DOMAIN DAILY_LOG[i].services = Providers
        /\ \A s \in Providers : DAILY_LOG[i].services[s] \in SeverityStrings

MinuteOfDay(stamp) == stamp[1] * 60 + stamp[2]

StampsOnGrid ==
    /\ \A i \in 1..Len(DAILY_LOG) : DAILY_LOG[i].timestamp[2] \in {0, 15, 30, 45}
    /\ \A i \in 1..(Len(DAILY_LOG) - 1) :
          MinuteOfDay(DAILY_LOG[i + 1].timestamp)
              = (MinuteOfDay(DAILY_LOG[i].timestamp) + 15) % MinutesPerDay

\* Once the sampler has gone back to sleep, every boundary that has passed
\* has its snapshot.
NoneSkipped == pc = "sleep" => appended = due

NoneTwice == appended <= due

\* C6 as claimed, whatever the cycles take.
C6_OnePerBoundary ==
    /\ NoneSkipped
    /\ NoneTwice
    /\ StampsOnGrid
    /\ SnapshotsComplete

\* C6 as amended: the same, for runs in which every sleep ended in the
\* minute it was due and every cycle ended before the next boundary; and in
\* every run no boundary is sampled twice and every snapshot is complete.
C6_OnePerBoundaryWhenTimely ==
    /\ ~late => (NoneSkipped /\ StampsOnGrid)
    /\ NoneTwice
    /\ SnapshotsComplete

C6_Witness ==
    /\ ~late
    /\ pc = "sleep"
    /\ appended = 3
    /\ due = 3
    /\ Len(DAILY_LOG) = 3
    /\ DAILY_LOG[3].timestamp = <<0, 0>>

\* C11: the list the monitoring view is given is ordered by severity
\* priority critical, major, minor, unavailable, maintenance, ok, ties broken
\* by ascending display name; the lists of the index, text-report and
\* spreadsheet views are ordered by ascending display name only; each entry
\* carries the status its provider reports, so the list handed over is the
\* same whatever the order in which the checks completed.
Priority == <<"critical", "major", "minor", "unavailable", "maintenance", "ok">>

PriorityOf(status) == CHOOSE i \in 1..Len(Priority) : Priority[i] = status

\* The code points of the first two characters of the display names, which
\* decide the order of the eight names as strings.
Spelling ==
    [s \in Providers |->
        CASE s = "Amazon Web Services" -> <<65, 109>>
          [] s = "Atlassian" -> <<65, 116>>
          [] s = "Cloudflare" -> <<67, 108>>
          [] s = "Docker" -> <<68, 111>>
          [] s = "GitHub" -> <<71, 105>>
          [] s = "Google Cloud" -> <<71, 111>>
          [] s = "Microsoft Azure" -> <<77, 105>>
          [] s = "Slack" -> <<83, 108>>]

NameBefore(a, b) ==
    \/ Spelling[a][1] < Spelling[b][1]
    \/ Spelling[a][1] = Spelling[b][1] /\ Spelling[a][2] < Spelling[b][2]

SeverityThenNameBefore(x, y) ==
    \/ PriorityOf(x.status) < PriorityOf(y.status)
    \/ PriorityOf(x.status) = PriorityOf(y.status) /\ NameBefore(x.name, y.name)

OrderedForView(route, list) ==
    \A i, j \in 1..Len(list) :
        i < j => IF route = "monitoring"
                 THEN SeverityThenNameBefore(list[i], list[j])
                 ELSE NameBefore(list[i].name, list[j].name)

C11_ViewOrder ==
    request = "returned" =>
        /\ Len(rendered[2]) = Len(SERVICES)
        /\ \A i \in 1..Len(rendered[2]) :
              rendered[2][i].status = get_status(rendered[2][i].name, world[rendered[2][i].name])
        /\ OrderedForView(rendered[1], rendered[2])

\* The monitoring view of the graded providers: its order is not the order
\* of the names.
C11_Witness ==
    /\ request = "returned"
    /\ rendered[1] = "monitoring"
    /\ [i \in 1..Len(rendered[2]) |-> rendered[2][i].name]
           = << "Amazon Web Services", "Microsoft Azure", "Cloudflare", "GitHub",
                "Docker", "Atlassian", "Slack", "Google Cloud" >>
    /\ {rendered[2][i].status : i \in 1..Len(rendered[2])} = Status

\* C12: when add_history calls on one provider interleave statement by
\* statement, the provider's history never holds more than 30 samples plus
\* one for every call in flight on it; so once all calls have finished it
\* holds at most 30.
C12_RaceBound ==
    \A s \in Providers :
        Len(history[s]) <= 30 + Cardinality(InFlight(s))

\* All calls have finished after two of them raced past the test together:
\* more than 30 samples were handed over and the list fell below 30.
C12_Witness ==
    \E s \in Providers :
        /\ InFlight(s) = {}
        /\ Len(sampled[s]) > 30
        /\ Len(history[s]) = 29

\* C13: a step of the background sampler leaves every provider's history
\* and last_checked as they were; a step that changes a provider's history
\* or last_checked is a foreground check of that one provider, which hands
\* add_history one sample (the new last element of the history) and leaves
\* the sampler and its log alone.
SamplerStep == samplerVars' # samplerVars \/ clock' # clock

ServiceStep == history' # history \/ last_checked' # last_checked

OneSampleOf(s) ==
    /\ Len(sampled'[s]) = Len(sampled[s]) + 1
    /\ SubSeq(sampled'[s], 1, Len(sampled[s])) = sampled[s]
    /\ history'[s] # <<>>
    /\ history'[s][Len(history'[s])] = sampled'[s][Len(sampled'[s])]
    /\ last_checked'[s] # None
    /\ \A t \in Providers \ {s} :
          /\ history'[t] = history[t]
          /\ last_checked'[t] = last_checked[t]
          /\ sampled'[t] = sampled[t]

C13_SamplerFrame ==
    [][ /\ SamplerStep => (UNCHANGED <<history, last_checked, sampled>>)
        /\ ServiceStep => /\ UNCHANGED <<samplerVars, clock>>
                          /\ \E s \in Providers : OneSampleOf(s) ]_vars

\* Two sampling cycles and two foreground checks of one provider have run:
\* the log holds two snapshots and only that provider has a history.
C13_Witness ==
    /\ Len(DAILY_LOG) = 2
    /\ appended = 2
    /\ pc = "sleep"
    /\ \E s \in Providers :
          /\ Len(history[s]) = 2
          /\ last_checked[s] # None
          /\ \A t \in Providers \ {s} : history[t] = <<>> /\ last_checked[t] = None

\* C14: while every sampling cycle ends inside its quarter of an hour,
\* DAILY_LOG never holds more than 186 snapshots; a reset fires right after
\* the 00:00 snapshot was appended and discards it with the rest, so a log
\* that was reset before starts with the 00:15 snapshot.
WasReset == appended > Len(DAILY_LOG)

C14_LogBound ==
    /\ [](/\ Len(DAILY_LOG) <= 186
          /\ (WasReset /\ DAILY_LOG # <<>>) => DAILY_LOG[1].timestamp = <<0, 15>>)
    /\ [][ (DAILY_LOG # <<>> /\ DAILY_LOG' = <<>>) =>
              DAILY_LOG[Len(DAILY_LOG)].timestamp = <<0, 0>> ]_vars

\* The first snapshot after a reset that discarded 186 snapshots: the log
\* kept the 90 snapshots it held at the first midnight and the 96 of the
\* following day, each HH:MM of the last 90 quarters twice.
C14_Witness ==
    /\ appended = 187
    /\ Len(DAILY_LOG) = 1
    /\ DAILY_LOG[1].timestamp = <<0, 15>>

====
